---- MODULE Spec2Model ----
(***************************************************************************)
(* Model of fibercnn/modeling/fiberwidth_head.py: the fibre-width ROI head *)
(* (FiberWidthHeadFC), its loss (fiberwidth_loss), its inference           *)
(* post-processing (fiberwidth_inference) and the module-level skip        *)
(* counter _TOTAL_SKIPPED.                                                 *)
(*                                                                         *)
(* Tensors are records [shape, data]: shape is the tuple of dimensions and *)
(* data the row-major sequence of elements.  Elements are floating-point   *)
(* numbers: a finite value, +inf, -inf or NaN, with the arithmetic of the  *)
(* tensor runtime (overflow to infinity, inf * 0 = NaN, NaN propagates).   *)
(***************************************************************************)
EXTENDS Integers, Sequences, FiniteSets, TLC

VARIABLES
    TOTAL_SKIPPED,      \* the module-level counter _TOTAL_SKIPPED
    storage,            \* the event storage: the scalars put so far, in order
    pc,                 \* "idle": between calls; "built": a head was constructed;
                        \* "done": a call has returned or raised
    head,               \* the FiberWidthHeadFC object under construction/use
    call,               \* the call in progress: its arguments and its outcome
    numEmptyLossCalls   \* history: fiberwidth_loss calls on batches with no instances

vars == <<TOTAL_SKIPPED, storage, pc, head, call, numEmptyLossCalls>>

----------------------------------------------------------------------------
(* Bounds of the model *)

\* largest number of prediction rows / of instances in a batch
MaxN == 2
\* largest number of images (Instances containers) in a batch
MaxImages == 3
\* the counter is followed up to this value
MaxSkipped == 2
\* largest number of conv layers and of hidden fc layers
MaxConv == 2
MaxFc == 2
\* largest finite magnitude of the model's floating-point format
MaxFloat == 1

----------------------------------------------------------------------------
(* Floating-point values *)

F(v) == [k |-> "fin", v |-> v, d |-> 1]
Inf == [k |-> "inf", v |-> 0, d |-> 1]
NegInf == [k |-> "ninf", v |-> 0, d |-> 1]
NaN == [k |-> "nan", v |-> 0, d |-> 1]
\* no value: the call raised instead of returning
NoValue == [k |-> "none", v |-> 0, d |-> 1]

\* rounding of an exact integer result: overflow gives an infinity
Round(n) == IF n > MaxFloat THEN Inf ELSE IF n < -MaxFloat THEN NegInf ELSE F(n)

IsNaN(a) == a.k = "nan"
IsFinite(a) == a.k = "fin"
\* the comparison a >= 0 as the runtime computes it: false for NaN
GeZero(a) == \/ a.k = "inf"
             \/ a.k = "fin" /\ a.v >= 0

FNeg(a) ==
    CASE a.k = "inf" -> NegInf
      [] a.k = "ninf" -> Inf
      [] a.k = "nan" -> NaN
      [] OTHER -> F(-a.v)

FAdd(a, b) ==
    CASE IsNaN(a) \/ IsNaN(b) -> NaN
      [] a.k = "inf" /\ b.k = "ninf" -> NaN
      [] a.k = "ninf" /\ b.k = "inf" -> NaN
      [] a.k = "inf" \/ b.k = "inf" -> Inf
      [] a.k = "ninf" \/ b.k = "ninf" -> NegInf
      [] OTHER -> Round(a.v + b.v)

FSub(a, b) == FAdd(a, FNeg(b))

Sign(a) == IF a.k = "inf" THEN 1 ELSE IF a.k = "ninf" THEN -1
           ELSE IF a.v > 0 THEN 1 ELSE IF a.v < 0 THEN -1 ELSE 0

FMul(a, b) ==
    CASE IsNaN(a) \/ IsNaN(b) -> NaN
      [] IsFinite(a) /\ IsFinite(b) -> Round(a.v * b.v)
      [] Sign(a) * Sign(b) = 0 -> NaN
      [] Sign(a) * Sign(b) > 0 -> Inf
      [] OTHER -> NegInf

\* division of a float by a positive count, kept exact as the fraction v/d
FDivN(a, n) == IF IsFinite(a) THEN [k |-> "fin", v |-> a.v, d |-> n] ELSE a

\* F.relu on one element: max(x, 0), NaN propagates
ReluIdentity(a) == a
Relu(a) ==
    CASE a.k = "nan" -> NaN
      [] a.k = "inf" -> Inf
      [] a.k = "ninf" -> F(0)
      [] OTHER -> IF a.v > 0 THEN a ELSE F(0)

----------------------------------------------------------------------------
(* Tensors *)

Tensor(shape, data) == [shape |-> shape, data |-> data]
\* an attribute that has not been set
Unset == [shape |-> <<>>, data |-> <<>>]

RECURSIVE FoldAdd(_, _)
FoldAdd(s, i) == IF i > Len(s) THEN F(0) ELSE FAdd(s[i], FoldAdd(s, i + 1))

\* Tensor.sum(): the sum of all elements (0 for an empty tensor)
TensorSum(t) == FoldAdd(t.data, 1)

RECURSIVE ProdSeq(_, _)
ProdSeq(s, i) == IF i > Len(s) THEN 1 ELSE s[i] * ProdSeq(s, i + 1)
\* np.prod of a shape tuple
Prod(s) == ProdSeq(s, 1)

RECURSIVE SumSeq(_, _)
SumSeq(s, i) == IF i > Len(s) THEN 0 ELSE s[i] + SumSeq(s, i + 1)

\* cat(list of 1-d tensors, dim=0)
RECURSIVE Cat(_)
Cat(list) == IF list = <<>> THEN <<>> ELSE Head(list) \o Cat(Tail(list))

SeqsUpTo(S, n) == UNION {[1..m -> S] : m \in 0..n}

----------------------------------------------------------------------------
(* Instances containers: len(instances) is the field len *)

\* an image of the training batch: its ground-truth fibre widths, one per instance
GtInstances(gt) == [len |-> Len(gt), gt_fiberwidth |-> gt]
\* a result container of the inference batch, no pred_fiberwidth yet
PredInstances(n) == [len |-> n, pred_fiberwidth |-> Unset]

----------------------------------------------------------------------------
(* fiberwidth_loss *)

\* gt_fiberwidth.view(-1): the same elements as a 1-d tensor
ViewFlat(gt) == gt

\* lines 41-46: the list of per-image target tensors, images with no instance skipped
RECURSIVE GatherReversed(_)
GatherReversed(instances) ==
    IF instances = <<>> THEN <<>>
    ELSE IF Head(instances).len = 0 THEN GatherReversed(Tail(instances))
    ELSE GatherReversed(Tail(instances)) \o <<ViewFlat(Head(instances).gt_fiberwidth)>>

RECURSIVE Gather(_)
Gather(instances) ==
    IF instances = <<>> THEN <<>>
    ELSE IF Head(instances).len = 0 THEN Gather(Tail(instances))
    ELSE <<ViewFlat(Head(instances).gt_fiberwidth)>> \o Gather(Tail(instances))

\* F.mse_loss(input, target) on tensors of one shape: mean((input - target)^2)
SquaredErrors(input, target) ==
    [i \in 1..Len(input.data) |->
        FMul(FSub(input.data[i], target.data[i]), FSub(input.data[i], target.data[i]))]

MseLoss(input, target) ==
    FDivN(FoldAdd(SquaredErrors(input, target), 1), Len(input.data))

\* line 55: _TOTAL_SKIPPED += 1
SkipIncrementTwice(n) == n + 2
SkipIncrement(n) == n + 1

\* line 58: pred_fiberwidths.sum() * 0
ZeroLossNoMul(pred) == TensorSum(pred)
ZeroLoss(pred) == FMul(TensorSum(pred), F(0))

\* lines 60-61: fiberwidth_targets.view(N, K) succeeds iff the element counts agree
ViewFitsAtLeast(targets, N, K) == Len(targets) >= N * K
ViewFits(targets, N, K) == Len(targets) = N * K

\* lines 41-65.  The outcome: the status ("ok" or the error raised), the loss
\* returned, and the counter and the event storage as the call leaves them.
fiberwidth_loss(pred_fiberwidths, instances, skipped, store) ==
    LET fiberwidths == Gather(instances)
        fiberwidth_targets == Cat(fiberwidths)
        N == pred_fiberwidths.shape[1]
        K == pred_fiberwidths.shape[2]
    IN  IF Len(fiberwidths) = 0
        THEN LET n == SkipIncrement(skipped)
             IN  [status |-> "ok",
                  loss |-> ZeroLoss(pred_fiberwidths),
                  TOTAL_SKIPPED |-> n,
                  storage |-> Append(store,
                      [name |-> "fiberwidth_num_skipped_batches", value |-> n])]
        ELSE IF ~ViewFits(fiberwidth_targets, N, K)
        THEN [status |-> "RuntimeError", loss |-> NoValue,
              TOTAL_SKIPPED |-> skipped, storage |-> store]
        ELSE [status |-> "ok",
              loss |-> MseLoss(pred_fiberwidths, Tensor(<<N, K>>, fiberwidth_targets)),
              TOTAL_SKIPPED |-> skipped, storage |-> store]

----------------------------------------------------------------------------
(* fiberwidth_inference *)

\* line 82: [len(i) for i in pred_instances]
Lens(pred_instances) == [i \in 1..Len(pred_instances) |-> pred_instances[i].len]

\* Tensor.narrow(0, start, length): rows start .. start+length-1 (0-based start)
Narrow(t, start, length) ==
    LET K == Prod(Tail(t.shape))
    IN  Tensor(<<length>> \o Tail(t.shape),
               [j \in 1..(length * K) |-> t.data[start * K + j]])

\* Tensor.split(sizes, dim=0): consecutive chunks, chunk i of sizes[i] rows
RECURSIVE SplitFrom(_, _, _, _)
SplitFrom(t, sizes, i, start) ==
    IF i > Len(sizes) THEN <<>>
    ELSE <<Narrow(t, start, sizes[i])>> \o SplitFrom(t, sizes, i + 1, start + sizes[i])

\* split raises unless the sizes sum to the length of dimension 0
SplitFitsAtMost(t, sizes) == SumSeq(sizes, 1) <= t.shape[1]
SplitFits(t, sizes) == SumSeq(sizes, 1) = t.shape[1]

SplitOverlapping(t, sizes) == [i \in 1..Len(sizes) |-> Narrow(t, 0, sizes[i])]
Split(t, sizes) == SplitFrom(t, sizes, 1, 0)

Min(a, b) == IF a < b THEN a ELSE b

\* lines 81-89.  The outcome: the status and the containers as the call leaves them.
fiberwidth_inference(pred_fiberwidths, pred_instances) ==
    LET fiberwidth_results == pred_fiberwidths  \* detach() keeps shape and values
        num_instances_per_image == Lens(pred_instances)
    IN  IF ~SplitFits(fiberwidth_results, num_instances_per_image)
        THEN [status |-> "RuntimeError", pred_instances |-> pred_instances]
        ELSE LET chunks == Split(fiberwidth_results, num_instances_per_image)
                 zipped == Min(Len(chunks), Len(pred_instances))
             IN  [status |-> "ok",
                  pred_instances |->
                      [i \in 1..Len(pred_instances) |->
                          IF i <= zipped
                          THEN [pred_instances[i] EXCEPT !.pred_fiberwidth = chunks[i]]
                          ELSE pred_instances[i]]]

----------------------------------------------------------------------------
(* FiberWidthHeadFC *)

\* the configuration node cfg.MODEL.ROI_FIBERWIDTH_HEAD and a ShapeSpec
Cfg(num_conv, conv_dim, num_fc, fc_dim, norm) ==
    [NUM_CONV |-> num_conv, CONV_DIM |-> conv_dim, NUM_FC |-> num_fc,
     FC_DIM |-> fc_dim, NORM |-> norm]
ShapeSpec(c, h, w) == [channels |-> c, height |-> h, width |-> w]

\* lines 120-128: a 3x3 conv, padding 1, with norm and relu
Conv2d(in_channels, out_channels, norm) ==
    [kind |-> "conv", in |-> in_channels, out |-> out_channels,
     kernel_size |-> 3, padding |-> 1, bias |-> (norm = ""), norm |-> norm]
\* nn.Linear(in_features, out_features)
Linear(in_features, out_features) ==
    [kind |-> "fc", in |-> in_features, out |-> out_features]

\* the module before any layer exists (after super().__init__())
EmptyModule ==
    [status |-> "ok", modules |-> <<>>, conv_norm_relus |-> <<>>, fcs |-> <<>>,
     size |-> <<>>, output_size |-> 0]

\* add_module(name, layer)
AddModule(m, name, layer) ==
    [m EXCEPT !.modules = Append(@, [name |-> name, layer |-> layer])]

\* lines 118-131: the conv loop, iteration k (0-based) onwards; m.size is _output_size
RECURSIVE ConvLoop(_, _, _)
ConvLoop(m, cfg, k) ==
    IF k >= cfg.NUM_CONV THEN m
    ELSE LET conv == Conv2d(m.size[1], cfg.CONV_DIM, cfg.NORM)
             m1 == AddModule(m, <<"conv", k + 1>>, conv)
             m2 == [m1 EXCEPT !.conv_norm_relus = Append(@, conv),
                              !.size = <<cfg.CONV_DIM, m.size[2], m.size[3]>>]
         IN  ConvLoop(m2, cfg, k + 1)

\* lines 133-138: the fc loop, iteration k (0-based) onwards
RECURSIVE FcLoop(_, _, _)
FcLoop(m, cfg, k) ==
    IF k >= cfg.NUM_FC THEN m
    ELSE LET fc == Linear(Prod(m.size), cfg.FC_DIM)
             m1 == AddModule(m, <<"fc", k + 1>>, fc)
             m2 == [m1 EXCEPT !.fcs = Append(@, fc), !.size = <<cfg.FC_DIM>>]
         IN  FcLoop(m2, cfg, k + 1)

\* line 144: self._output_size = 1
FinalOutputSizeFcDim(cfg) == cfg.FC_DIM
FinalOutputSize(cfg) == 1

\* lines 140-144: the final single-neuron fc layer
FinalFc(m, cfg) ==
    LET fc == Linear(cfg.FC_DIM, 1)
        m1 == AddModule(m, <<"fc", cfg.NUM_FC + 1>>, fc)
    IN  [m1 EXCEPT !.fcs = Append(@, fc), !.size = <<1>>,
                   !.output_size = FinalOutputSize(cfg)]

\* lines 116-144: the layers of the head
BuildLayers(cfg, input_shape) ==
    LET m0 == [EmptyModule EXCEPT
                  !.size = <<input_shape.channels, input_shape.height, input_shape.width>>]
    IN  FinalFc(FcLoop(ConvLoop(m0, cfg, 0), cfg, 0), cfg)

\* line 114: assert num_conv + num_fc > 0
AssertLayers(cfg) == cfg.NUM_CONV + cfg.NUM_FC > 0

\* lines 106-149: FiberWidthHeadFC.__init__ (weight initialisation changes no shape)
HeadInitAssertLast(cfg, input_shape) ==
    IF AssertLayers(cfg) THEN BuildLayers(cfg, input_shape)
    ELSE [BuildLayers(cfg, input_shape) EXCEPT !.status = "AssertionError"]

HeadInit(cfg, input_shape) ==
    IF ~AssertLayers(cfg)
    THEN [EmptyModule EXCEPT !.status = "AssertionError"]
    ELSE BuildLayers(cfg, input_shape)

\* the shape a layer returns for an input of shape s, <<>> when it raises:
\* a conv wants s = (N, in, H, W) and keeps H and W (3x3, padding 1);
\* a linear layer wants the last dimension to be in
LayerShape(layer, s) ==
    IF s = <<>> THEN <<>>
    ELSE IF layer.kind = "conv"
    THEN IF Len(s) = 4 /\ s[2] = layer.in THEN <<s[1], layer.out, s[3], s[4]>> ELSE <<>>
    ELSE IF Len(s) >= 1 /\ s[Len(s)] = layer.in
         THEN [i \in 1..Len(s) |-> IF i = Len(s) THEN layer.out ELSE s[i]]
         ELSE <<>>

RECURSIVE ApplyLayers(_, _, _)
ApplyLayers(layers, i, s) ==
    IF i > Len(layers) THEN s ELSE ApplyLayers(layers, i + 1, LayerShape(layers[i], s))

\* torch.flatten(x, start_dim=1)
Flatten(s) == IF s = <<>> THEN <<>> ELSE <<s[1], Prod(Tail(s))>>

\* lines 151-159 on shapes: the shape forward returns, <<>> when a layer raises
ForwardShape(h, xshape) ==
    LET s1 == ApplyLayers(h.conv_norm_relus, 1, xshape)
    IN  IF Len(h.fcs) > 0
        THEN ApplyLayers(h.fcs, 1, IF Len(s1) > 2 THEN Flatten(s1) ELSE s1)
        ELSE s1

\* line 158 for the last fc layer: x = F.relu(layer(x)); y is layer(x), which
\* the weights and the bias of the layer can make any values
LastActivation(y) == [i \in 1..Len(y) |-> Relu(y[i])]

\* lines 151-159: forward on a batch of shape xshape; y is the output of the last
\* fc layer before its activation
Forward(h, xshape, y) ==
    LET s == ForwardShape(h, xshape)
    IN  IF s = <<>>
        THEN [status |-> "RuntimeError", out |-> Unset]
        ELSE [status |-> "ok",
              out |-> Tensor(s, IF Len(h.fcs) > 0 THEN LastActivation(y) ELSE y)]

----------------------------------------------------------------------------
(* The inputs the calls are made with *)

\* element values of the prediction tensors
SampleVals == {F(-1), F(0), F(1), Inf, NaN}
\* ground-truth fibre widths
GtVals == {F(0), F(1)}
\* second dimension K of a prediction tensor (the head itself gives K = 1)
PredWidths == {1, 2}
\* conv_dim and fc_dim
Dims == {1, 2}
\* "" is no normalisation
Norms == {"", "BN"}
InputShapes == {ShapeSpec(c, h, 1) : c \in {1, 2}, h \in {1, 2}}

PredShapes == {s \in (0..MaxN) \X PredWidths : s[1] * s[2] <= MaxN}
PredTensors ==
    UNION {{Tensor(s, d) : d \in [1..(s[1] * s[2]) -> SampleVals]} : s \in PredShapes}

RECURSIVE TotalLen(_)
TotalLen(instances) ==
    IF instances = <<>> THEN 0 ELSE Head(instances).len + TotalLen(Tail(instances))

GtBatches ==
    {b \in SeqsUpTo({GtInstances(gt) : gt \in SeqsUpTo(GtVals, MaxN)}, MaxImages) :
        TotalLen(b) <= MaxN}

PredBatches ==
    {b \in SeqsUpTo({PredInstances(n) : n \in 0..MaxN}, MaxImages) : TotalLen(b) <= MaxN}

Configs ==
    {Cfg(nc, cd, nf, fd, norm) :
        nc \in 0..MaxConv, cd \in Dims, nf \in 0..MaxFc, fd \in Dims, norm \in Norms}

AllEmpty(instances) == \A i \in 1..Len(instances) : instances[i].len = 0

----------------------------------------------------------------------------
(* The state machine: one action per call *)

NoCall == [op |-> "none"]
NoHead == [m |-> [EmptyModule EXCEPT !.status = "none"]]

Init ==
    /\ TOTAL_SKIPPED = 0
    /\ storage = <<>>
    /\ pc = "idle"
    /\ head = NoHead
    /\ call = NoCall
    /\ numEmptyLossCalls = 0

\* fiberwidth_loss(pred_fiberwidths, instances)
CallLoss(pred_fiberwidths, instances) ==
    /\ pc = "idle"
    /\ AllEmpty(instances) => TOTAL_SKIPPED < MaxSkipped
    /\ LET r == fiberwidth_loss(pred_fiberwidths, instances, TOTAL_SKIPPED, storage)
       IN  /\ TOTAL_SKIPPED' = r.TOTAL_SKIPPED
           /\ storage' = r.storage
           /\ call' = [op |-> "loss", pred_fiberwidths |-> pred_fiberwidths,
                       instances |-> instances, skipped_before |-> TOTAL_SKIPPED,
                       stored_before |-> Len(storage),
                       status |-> r.status, loss |-> r.loss]
    /\ numEmptyLossCalls' = numEmptyLossCalls + (IF AllEmpty(instances) THEN 1 ELSE 0)
    /\ pc' = "done"
    /\ UNCHANGED head

\* fiberwidth_inference(pred_fiberwidths, pred_instances)
CallInference(pred_fiberwidths, pred_instances) ==
    /\ pc = "idle"
    /\ LET r == fiberwidth_inference(pred_fiberwidths, pred_instances)
       IN  call' = [op |-> "inference", pred_fiberwidths |-> pred_fiberwidths,
                    before |-> pred_instances, skipped_before |-> TOTAL_SKIPPED,
                    stored_before |-> Len(storage),
                    status |-> r.status, pred_instances |-> r.pred_instances]
    /\ pc' = "done"
    /\ UNCHANGED <<TOTAL_SKIPPED, storage, head, numEmptyLossCalls>>

\* FiberWidthHeadFC(cfg, input_shape)
Construct(cfg, input_shape) ==
    /\ pc = "idle"
    /\ LET m == HeadInit(cfg, input_shape)
       IN  /\ head' = [m |-> m, cfg |-> cfg, input_shape |-> input_shape]
           /\ call' = [op |-> "construct", skipped_before |-> TOTAL_SKIPPED,
                       stored_before |-> Len(storage), status |-> m.status]
           /\ pc' = IF m.status = "ok" THEN "built" ELSE "done"
    /\ UNCHANGED <<TOTAL_SKIPPED, storage, numEmptyLossCalls>>

\* head.forward(x) on a batch of n feature maps of the configured input shape
CallForward(n, y) ==
    /\ pc = "built"
    /\ LET xshape == <<n, head.input_shape.channels, head.input_shape.height,
                       head.input_shape.width>>
           r == Forward(head.m, xshape, y)
       IN  call' = [op |-> "forward", x_shape |-> xshape, y |-> y,
                    skipped_before |-> TOTAL_SKIPPED, stored_before |-> Len(storage),
                    status |-> r.status, out |-> r.out]
    /\ pc' = "done"
    /\ UNCHANGED <<TOTAL_SKIPPED, storage, head, numEmptyLossCalls>>

\* the call is over: its arguments, its result and the head go out of scope,
\* the module-level counter and the event storage stay
Return ==
    /\ pc = "done"
    /\ pc' = "idle"
    /\ call' = NoCall
    /\ head' = NoHead
    /\ UNCHANGED <<TOTAL_SKIPPED, storage, numEmptyLossCalls>>

\* the calls are made one at a time (single-threaded, synchronous)
Next ==
    \/ pc = "idle" /\ \E p \in PredTensors, b \in GtBatches : CallLoss(p, b)
    \/ pc = "idle" /\ \E p \in PredTensors, b \in PredBatches : CallInference(p, b)
    \/ pc = "idle" /\ \E cfg \in Configs, s \in InputShapes : Construct(cfg, s)
    \/ pc = "built" /\ \E n \in 0..MaxN : \E y \in [1..n -> SampleVals] : CallForward(n, y)
    \/ Return

Spec == Init /\ [][Next]_vars

----------------------------------------------------------------------------
(* Properties *)

\* number of instances in the first i images of a batch
PrefixLen(b, i) == TotalLen(SubSeq(b, 1, i))
\* the image that holds the j-th instance of the batch, images counted in order
ImageOf(b, j) == CHOOSE i \in 1..Len(b) : PrefixLen(b, i - 1) < j /\ j <= PrefixLen(b, i)
\* the j-th ground-truth scalar in image order and, within an image, instance order
NthTarget(b, j) == b[ImageOf(b, j)].gt_fiberwidth[j - PrefixLen(b, ImageOf(b, j) - 1)]
\* the mean squared error between prediction row j and the j-th ground truth
ExpectedMse(pred, b) ==
    LET err == [j \in 1..pred.shape[1] |-> FSub(pred.data[j], NthTarget(b, j))]
    IN  FDivN(FoldAdd([j \in 1..pred.shape[1] |-> FMul(err[j], err[j])], 1), pred.shape[1])

IsLoss == call.op = "loss"
IsInference == call.op = "inference"
IsConstruct == call.op = "construct"
IsForward == call.op = "forward"
PredRows == call.pred_fiberwidths.shape[1]
PredCols == call.pred_fiberwidths.shape[2]

\* C1: for every configuration with num_conv + num_fc > 0 and every batch of N
\* inputs of the configured input shape, forward completes without a dimension
\* error and returns a tensor of shape (N, 1).
C1_ForwardShapeN1 ==
    (IsForward /\ head.cfg.NUM_CONV + head.cfg.NUM_FC > 0)
        => /\ call.status = "ok"
           /\ call.out.shape = <<call.x_shape[1], 1>>

\* C2: a loss call with predictions of shape (N, 1), N > 0, and N instances in
\* total returns the mean squared error between prediction row j and the j-th
\* ground-truth scalar of the concatenation in image order then instance order,
\* images without instances contributing nothing.
C2_LossIsMse ==
    (IsLoss /\ PredCols = 1 /\ PredRows > 0 /\ TotalLen(call.instances) = PredRows)
        => /\ call.status = "ok"
           /\ call.loss = ExpectedMse(call.pred_fiberwidths, call.instances)

C2_Witness ==
    /\ IsLoss /\ PredCols = 1 /\ PredRows = 2
    /\ Len(call.instances) = 3
    /\ call.instances[1].len = 1 /\ call.instances[2].len = 0 /\ call.instances[3].len = 1
    /\ call.instances[1].gt_fiberwidth # call.instances[3].gt_fiberwidth
    /\ call.pred_fiberwidths.data[1] = call.instances[1].gt_fiberwidth[1]
    /\ call.pred_fiberwidths.data[2] = call.instances[3].gt_fiberwidth[1]
    /\ call.status = "ok" /\ call.loss = FDivN(F(0), 2)

AllFinite(t) == \A i \in 1..Len(t.data) : IsFinite(t.data[i])
Abs(n) == IF n < 0 THEN -n ELSE n
\* the sum of the magnitudes stays within the finite range: no partial sum overflows
SumInRange(t) == SumSeq([i \in 1..Len(t.data) |-> Abs(t.data[i].v)], 1) <= MaxFloat

\* C3 as stated: a loss call on a batch whose images all have zero instances
\* returns exactly 0 whatever the prediction values are, and leaves the counter
\* exactly 1 higher than before the call.
C3_ZeroLossWhateverPred ==
    (IsLoss /\ AllEmpty(call.instances))
        => /\ call.status = "ok"
           /\ call.loss = F(0)
           /\ TOTAL_SKIPPED = call.skipped_before + 1

\* C3 as amended: such a call leaves the counter exactly 1 higher than before;
\* it returns exactly 0 when all predictions are finite and their sum does not
\* overflow, and NaN when some prediction is NaN or infinite.
C3_ZeroLossFinitePred ==
    (IsLoss /\ AllEmpty(call.instances))
        => /\ call.status = "ok"
           /\ TOTAL_SKIPPED = call.skipped_before + 1
           /\ (AllFinite(call.pred_fiberwidths) /\ SumInRange(call.pred_fiberwidths))
                  => call.loss = F(0)
           /\ ~AllFinite(call.pred_fiberwidths) => IsNaN(call.loss)

\* the second of two consecutive calls on batches of empty images, nonzero predictions
C3_Witness ==
    /\ IsLoss /\ AllEmpty(call.instances) /\ Len(call.instances) = 2
    /\ PredRows = 1 /\ call.pred_fiberwidths.data[1] = F(1)
    /\ call.loss = F(0)
    /\ call.skipped_before = 1 /\ TOTAL_SKIPPED = 2

\* the rows of chunk i of the split: those after the first i-1 containers' rows
ExpectedChunk(pred, b, i) ==
    LET K == pred.shape[2]
        first == PrefixLen(b, i - 1)
    IN  Tensor(<<b[i].len, K>>, [j \in 1..(b[i].len * K) |-> pred.data[first * K + j]])

RECURSIVE CatFields(_, _)
CatFields(b, i) ==
    IF i > Len(b) THEN <<>> ELSE b[i].pred_fiberwidth.data \o CatFields(b, i + 1)

\* C4: an inference call whose per-image counts sum to N attaches to container
\* i exactly the contiguous rows [c_0+...+c_{i-1}, c_0+...+c_i) in order (empty
\* when c_i = 0); every container receives a field and the fields concatenated
\* in image order are the input predictions.
C4_InferenceChunks ==
    (IsInference /\ TotalLen(call.before) = PredRows)
        => /\ call.status = "ok"
           /\ Len(call.pred_instances) = Len(call.before)
           /\ \A i \in 1..Len(call.before) :
                 /\ call.pred_instances[i].len = call.before[i].len
                 /\ call.pred_instances[i].pred_fiberwidth # Unset
                 /\ call.pred_instances[i].pred_fiberwidth
                        = ExpectedChunk(call.pred_fiberwidths, call.before, i)
           /\ CatFields(call.pred_instances, 1) = call.pred_fiberwidths.data

C4_Witness ==
    /\ IsInference /\ call.status = "ok" /\ PredRows = 2 /\ PredCols = 1
    /\ call.pred_fiberwidths.data = <<F(1), F(-1)>>
    /\ Lens(call.before) = <<1, 0, 1>>
    /\ call.pred_instances[1].pred_fiberwidth = Tensor(<<1, 1>>, <<F(1)>>)
    /\ call.pred_instances[2].pred_fiberwidth = Tensor(<<0, 1>>, <<>>)
    /\ call.pred_instances[3].pred_fiberwidth = Tensor(<<1, 1>>, <<F(-1)>>)

\* C5: an inference call whose per-image counts do not sum to N ends in a
\* runtime error, for sums smaller and larger than N and for an empty container
\* list with N > 0; no container receives a field.
C5_InferenceMismatchRaises ==
    (IsInference /\ TotalLen(call.before) # PredRows)
        => /\ call.status = "RuntimeError"
           /\ call.pred_instances = call.before

C5_Witness ==
    /\ IsInference /\ call.status = "RuntimeError"
    /\ Len(call.before) = 2 /\ TotalLen(call.before) = 1 /\ PredRows = 2

C7_AssertBeforeLayers ==
    (IsConstruct /\ head.cfg.NUM_CONV = 0 /\ head.cfg.NUM_FC = 0)
        => /\ call.status = "AssertionError"
           /\ head.m.modules = <<>>
           /\ head.m.conv_norm_relus = <<>>
           /\ head.m.fcs = <<>>

C7_Witness ==
    /\ IsConstruct /\ pc = "done"
    /\ head.cfg.NUM_CONV = 0 /\ head.cfg.NUM_FC = 0
    /\ call.status = "AssertionError"

\* C8 as stated: a loss call in which the number of ground-truth scalars differs
\* from the number N*K of prediction elements fails with a runtime error and
\* returns no loss, also when every image has zero instances and N > 0.
C8_AnyMismatchRaises ==
    (IsLoss /\ TotalLen(call.instances) # PredRows * PredCols)
        => /\ call.status = "RuntimeError"
           /\ call.loss = NoValue

\* C8 as amended: the call fails with a runtime error and returns no loss for
\* every such mismatch in which some image has an instance; when no image has
\* one, it returns a loss and raises nothing.
C8_NonEmptyMismatchRaises ==
    (IsLoss /\ TotalLen(call.instances) # PredRows * PredCols)
        => IF TotalLen(call.instances) > 0
           THEN /\ call.status = "RuntimeError"
                /\ call.loss = NoValue
                /\ TOTAL_SKIPPED = call.skipped_before
           ELSE /\ call.status = "ok"
                /\ call.loss # NoValue

C8_Witness ==
    /\ IsLoss /\ call.status = "RuntimeError"
    /\ PredRows = 1 /\ PredCols = 2
    /\ TotalLen(call.instances) = 1

\* the metrics a counter value n stands for: one per skipped batch, valued 1..n
ExpectedStorage(n) ==
    [i \in 1..n |-> [name |-> "fiberwidth_num_skipped_batches", value |-> i]]

C9_Inv ==
    /\ TOTAL_SKIPPED = numEmptyLossCalls
    /\ storage = ExpectedStorage(numEmptyLossCalls)

C9_Step ==
    /\ TOTAL_SKIPPED' >= TOTAL_SKIPPED
    /\ IF pc = "idle" /\ call'.op = "loss" /\ AllEmpty(call'.instances)
       THEN /\ TOTAL_SKIPPED' = TOTAL_SKIPPED + 1
            /\ storage' = Append(storage,
                   [name |-> "fiberwidth_num_skipped_batches", value |-> TOTAL_SKIPPED'])
       ELSE /\ TOTAL_SKIPPED' = TOTAL_SKIPPED
            /\ storage' = storage

\* C9: over any sequence of calls the counter never decreases and equals the
\* number of loss calls made so far on batches with no instances; the metric is
\* emitted once per such call with the counter's value after the increment, and
\* no other call changes the counter or emits the metric.
C9_CounterCountsSkips == []C9_Inv /\ [][C9_Step]_vars

\* a forward pass made after two skipped batches
C9_Witness ==
    /\ IsForward /\ TOTAL_SKIPPED = 2 /\ numEmptyLossCalls = 2 /\ Len(storage) = 2
    /\ storage[2].value = 2

OutElems == 1..Len(call.out.data)

\* C10 as stated: every fc layer is followed by a relu, so for every input and
\* every value of the weights each element forward returns is >= 0.
C10_OutputGeZero ==
    (IsForward /\ call.status = "ok")
        => \A i \in OutElems : GeZero(call.out.data[i])

\* C10 as amended: each element forward returns is >= 0 or NaN (NaN when the
\* last layer's output is NaN); none is negative.
C10_OutputGeZeroOrNaN ==
    (IsForward /\ call.status = "ok")
        => \A i \in OutElems :
              /\ GeZero(call.out.data[i]) \/ IsNaN(call.out.data[i])
              /\ IsNaN(call.out.data[i]) <=> IsNaN(call.y[i])

C10_Witness ==
    /\ IsForward /\ call.status = "ok"
    /\ call.y = <<F(-1), F(1)>>
    /\ call.out = Tensor(<<2, 1>>, <<F(0), F(1)>>)

====
